---- MODULE Spec2Model ----
(***************************************************************************)
(* Lead generation / enrichment pipeline: the checkpointed driver of       *)
(* enrich_leads.py and the retry loops of the three search clients         *)
(* (enrich_lead, search_leads, enrich_contact).                            *)
(***************************************************************************)
EXTENDS Integers, Sequences, FiniteSets, TLC

(***************************************************************************)
(* Bounds of the model.                                                    *)
(***************************************************************************)
\* largest number of rows of the input dataset
MaxRows == 4
\* largest checkpoint interval tried
MaxInterval == 2
\* number of times the driver process is started
MaxRuns == 2
\* size of the worker pool
MaxPool == 2
\* largest number of rows that are not a plainly named lead the service finds
MaxOdd == 1

(***************************************************************************)
(* Program constants.                                                      *)
(***************************************************************************)
\* Delays are counted in tenths of a second, the unit in which the 1.5 s of
\* enrich_contacts.py is a whole number.
RETRY_ATTEMPTS == 5
\* RETRY_DELAY = 10 (seconds)
RETRY_DELAY == 100
\* REQUEST_DELAY of enrich_leads.py and generate_leads.py, by default 2 (seconds)
REQUEST_DELAY == 20
\* REQUEST_DELAY = 1.5 (seconds) of enrich_contacts.py
CONTACT_REQUEST_DELAY == 15
\* range(3) of search_leads
SEARCH_ATTEMPTS == 3
MAX_WORKERS == MaxPool

VARIABLES
    \* ---- enrich_leads.py: environment
    rows,               \* the input dataset and its environment: for each
                        \* row the kind of its 'Contact Name', whether a
                        \* client can be built for it and what the search
                        \* service answers about that lead
    interval,           \* CHECKPOINT_INTERVAL
    disk,               \* content of CHECKPOINT_FILE
    output,             \* content of OUTPUT_FILE
    \* ---- enrich_leads.py: main()
    pc,                 \* position of the main thread
    processed_indices,
    enrichments,
    to_process,
    checkpoint_counter,
    progress,
    futures,            \* index -> state of the submitted future
    cur,                \* the (index, result) pair being collected
    \* ---- bookkeeping of one run
    run,                \* number of process starts so far
    loaded,             \* CHECKPOINT_FILE as this run found it
    nsaves,             \* completed save_checkpoint calls of this run
    requests            \* remote requests issued in this run

elvars == <<rows, interval, disk, output, pc, processed_indices, enrichments,
            to_process, checkpoint_counter, progress, futures, cur, run,
            loaded, nsaves, requests>>

VARIABLES
    \* ---- one work item in one of the three handlers
    cfn,                \* "enrich_lead", "search_leads" or "enrich_contact"
    cpc,                \* "start", "call", "done"
    cattempt,           \* the loop variable attempt
    clog,               \* the sleeps and requests made so far, in order
    cstats,             \* the handler's counters
    cout                \* how the handler ended

clvars == <<cfn, cpc, cattempt, clog, cstats, cout>>

VARIABLES
    \* ---- generate_leads.py: deduplicate_leads applied to a list of leads
    all_leads,          \* the list main() passes to deduplicate_leads
    unique_leads,       \* what deduplicate_leads returned
    dpc                 \* "start", "done"

ddvars == <<all_leads, unique_leads, dpc>>

VARIABLES
    \* ---- enrich_contacts.py: one enrichment df_after into its row
    df_before,              \* the row of the dataframe before the merge
    result,               \* results[idx]
    df_after,             \* the row after the merge
    mpc                 \* "start", "done"

mgvars == <<df_before, result, df_after, mpc>>

VARIABLES
    \* ---- enrich_contacts.py: main() and its workers
    contacts,           \* the input rows and what the service answers about
                        \* each of them
    cdf,                \* df, the dataframe in memory
    cdf_out,            \* the saved OUTPUT_FILE
    con_stats,          \* stats
    con_results,        \* results
    cfutures,           \* index -> state of the submitted future
    epc                 \* position of the main thread

ecvars == <<contacts, cdf, cdf_out, con_stats, con_results, cfutures, epc>>

VARIABLES
    \* ---- the worker pool of a driver, a lock operation at a time
    pdrv,               \* "enrich_leads", "generate_leads" or "enrich_contacts"
    psize,              \* max_workers of the pool
    pinterval,          \* CHECKPOINT_INTERVAL
    pw,                 \* item -> where its handler stands, what it read
                        \* under the lock and how it ended
    plock,              \* progress_lock / lock: 0 when free, else the item
                        \* whose worker holds it
    pstats,             \* progress / stats
    pleads,             \* len(all_leads)
    presults,           \* the keys of results
    pmain,              \* position of the main thread
    ptaken,             \* the futures the collection loop has taken
    penrich,            \* the keys of enrichments
    pprocessed,         \* processed_indices
    pcounter,           \* checkpoint_counter
    pcklock,            \* whether main holds checkpoint_lock
    pfile               \* processed indices in CHECKPOINT_FILE

plvars == <<pdrv, psize, pinterval, pw, plock, pstats, pleads, presults, pmain,
            ptaken, penrich, pprocessed, pcounter, pcklock, pfile>>

VARIABLES
    \* ---- enrich_leads.py: one save of the checkpoint and one load
    kstate,             \* processed_indices and enrichments in memory
    kfile,              \* the JSON document in CHECKPOINT_FILE, if any
    kloaded,            \* processed_indices and enrichments as main() has
                        \* them after load_checkpoint
    kpc                 \* "start", "saved", "loaded"

ckvars == <<kstate, kfile, kloaded, kpc>>

VARIABLES
    \* ---- the parsing step of a handler applied to one reply
    reply,              \* the parts a reply is made of: text, fence and
                        \* label, the JSON text, fence, text
    parser,             \* the handler whose parsing step is applied
    extracted,          \* the text handed to json.loads
    xpc                 \* "start", "done"

psvars == <<reply, parser, extracted, xpc>>

\* the variables beyond those of the enrich_leads driver and the handlers
auxvars == <<ddvars, mgvars, ecvars, plvars, ckvars, psvars>>

vars == <<elvars, clvars, auxvars>>

\* the variables each part of the model leaves alone
notDriver == <<clvars, auxvars>>
notClient == <<elvars, auxvars>>
notDedup == <<elvars, clvars, mgvars, ecvars, plvars, ckvars, psvars>>
notMerge == <<elvars, clvars, ddvars, ecvars, plvars, ckvars, psvars>>
notContacts == <<elvars, clvars, ddvars, mgvars, plvars, ckvars, psvars>>
notPool == <<elvars, clvars, ddvars, mgvars, ecvars, ckvars, psvars>>
notCheckpoint == <<elvars, clvars, ddvars, mgvars, ecvars, plvars, psvars>>
notParse == <<elvars, clvars, ddvars, mgvars, ecvars, plvars, ckvars>>

\* a part of the model that takes no part in a specification stays as it is
DedupIdle ==
    /\ all_leads = <<>>
    /\ unique_leads = <<>>
    /\ dpc = "off"

MergeIdle ==
    /\ df_before = <<>>
    /\ result = <<>>
    /\ df_after = <<>>
    /\ mpc = "off"

ContactsIdle ==
    /\ contacts = <<>>
    /\ cdf = <<>>
    /\ cdf_out = <<>>
    /\ con_stats = <<>>
    /\ con_results = <<>>
    /\ cfutures = <<>>
    /\ epc = "off"

PoolIdle ==
    /\ pdrv = "none"
    /\ psize = 0
    /\ pinterval = 0
    /\ pw = <<>>
    /\ plock = 0
    /\ pstats = <<>>
    /\ pleads = 0
    /\ presults = {}
    /\ pmain = "off"
    /\ ptaken = {}
    /\ penrich = {}
    /\ pprocessed = {}
    /\ pcounter = 0
    /\ pcklock = FALSE
    /\ pfile = {}

CheckpointIdle ==
    /\ kstate = <<>>
    /\ kfile = <<>>
    /\ kloaded = <<>>
    /\ kpc = "off"

ParseIdle ==
    /\ reply = <<>>
    /\ parser = "none"
    /\ extracted = <<>>
    /\ xpc = "off"

AuxIdle ==
    /\ DedupIdle /\ MergeIdle /\ ContactsIdle /\ PoolIdle /\ CheckpointIdle
    /\ ParseIdle

(***************************************************************************)
(* Values.                                                                 *)
(***************************************************************************)
\* what row.get('Contact Name') can be: a name, or NaN/blank
NameKinds == {"text", "missing"}

\* whether Groq(api_key=...) gives a client or raises
ClientKinds == {"ok", "fails"}

\* what one remote call can give: a reply that decodes to the expected JSON
\* shape, a reply json.loads rejects, a reply that decodes to another shape,
\* an exception whose text holds "429", an exception whose text holds "rate"
\* but not "429", any other exception
RespKinds == {"valid", "undecodable", "wrongshape", "err429", "errRate", "errOther"}

EmptyMap == [k \in {} |-> "none"]

\* str(index) and int(idx_str)
StrOf(i) == ToString(i)
IntOf(s) == CHOOSE i \in 0..(MaxRows + 1) : ToString(i) = s

NoFile == [kind |-> "absent", processed_indices |-> {}, enrichments |-> EmptyMap]
Truncated == [kind |-> "partial", processed_indices |-> {}, enrichments |-> EmptyMap]
JsonFile(p, e) == [kind |-> "json", processed_indices |-> p, enrichments |-> e]

NoOutput == [written |-> FALSE, cells |-> EmptyMap]

ZeroProgress == [completed |-> 0, success |-> 0, errors |-> 0, total |-> 0]

(***************************************************************************)
(* enrich_lead: one pass of the retry loop, and the whole handler.         *)
(***************************************************************************)
\* the exception the try block of enrich_lead ends with ("none": it returns).
\* A reply that decodes to something other than an object fails at
\* data['last_enriched'] = ... with a TypeError.
EnrichLeadTry(resp) ==
    CASE resp = "valid"       -> "none"
      [] resp = "undecodable" -> "JSONDecodeError"
      [] resp = "wrongshape"  -> "TypeError"
      [] resp = "err429"      -> "RateLimit"
      [] resp = "errRate"     -> "RateLimit"
      [] OTHER                -> "Other"

EnrichLeadBackoff_Flat(attempt, exc) == RETRY_DELAY

\* the sleep before the next attempt after a failed one
EnrichLeadBackoff(attempt, exc) ==
    IF exc = "RateLimit" THEN RETRY_DELAY * (attempt + 1) ELSE RETRY_DELAY

EnrichLeadRetries_Short(attempt, exc) == attempt < RETRY_ATTEMPTS - 2

\* whether another attempt follows a failed one
EnrichLeadRetries(attempt, exc) == attempt < RETRY_ATTEMPTS - 1

\* the result dict of an attempt that was the last
EnrichLeadStatus(exc) ==
    CASE exc = "none"            -> "success"
      [] exc = "JSONDecodeError" -> "parse_error"
      [] OTHER                   -> "api_error"

\* attempt is 0-based, as in range(RETRY_ATTEMPTS)
EnrichLeadAttempt(attempt, resp) ==
    LET exc == EnrichLeadTry(resp)
    IN  IF exc = "none"
        THEN [ctl |-> "return", status |-> EnrichLeadStatus(exc), sleep |-> 0,
              dCompleted |-> 1, dSuccess |-> 1, dErrors |-> 0]
        ELSE IF EnrichLeadRetries(attempt, exc)
        THEN [ctl |-> "continue", status |-> "none",
              sleep |-> EnrichLeadBackoff(attempt, exc),
              dCompleted |-> 0, dSuccess |-> 0, dErrors |-> 0]
        ELSE [ctl |-> "return", status |-> EnrichLeadStatus(exc), sleep |-> 0,
              dCompleted |-> 1, dSuccess |-> 0, dErrors |-> 1]

RECURSIVE EnrichLeadFrom(_, _, _)
EnrichLeadFrom(attempt, script, acc) ==
    LET r == EnrichLeadAttempt(attempt, script[attempt + 1])
        acc2 == [status |-> r.status,
                 requests |-> acc.requests + 1,
                 completed |-> acc.completed + r.dCompleted,
                 success |-> acc.success + r.dSuccess,
                 errors |-> acc.errors + r.dErrors]
    IN  IF r.ctl = "continue"
        THEN EnrichLeadFrom(attempt + 1, script, acc2)
        ELSE acc2

\* enrich_lead((index, row)) against the replies script[1], script[2], ...;
\* get_client() is called before the try block, so what it raises leaves the
\* handler
enrich_lead(script, clientOk) ==
    LET zero == [status |-> "none", requests |-> 0, completed |-> 0,
                 success |-> 0, errors |-> 0]
    IN  IF clientOk
        THEN EnrichLeadFrom(0, script, zero)
        ELSE [zero EXCEPT !.status = "raised"]

(***************************************************************************)
(* enrich_leads.py: checkpoint store.                                      *)
(***************************************************************************)
\* load_checkpoint(): the record json.load gives, or the empty checkpoint
load_checkpoint(file) ==
    IF file.kind = "json"
    THEN [processed_indices |-> file.processed_indices,
          enrichments |-> file.enrichments]
    ELSE [processed_indices |-> {}, enrichments |-> EmptyMap]

\* json.load raises on a file that open(..., 'w') emptied and json.dump did
\* not finish
LoadRaises(file) == file.kind = "partial"

\* rows skipped for want of a name: NaN, blank or 'nan'
NameMissing(kind) == kind = "missing"

\* the indices main() dispatches, in row order
RECURSIVE ToProcessFrom(_, _, _)
ToProcessFrom(i, processed, rws) ==
    IF i >= Len(rws) THEN <<>>
    ELSE IF i \in processed \/ NameMissing(rws[i + 1].name)
         THEN ToProcessFrom(i + 1, processed, rws)
         ELSE <<i>> \o ToProcessFrom(i + 1, processed, rws)

ToProcess_IgnoreCheckpoint(processed, rws) == ToProcessFrom(0, {}, rws)

ToProcess(processed, rws) == ToProcessFrom(0, processed, rws)

Range(seq) == {seq[k] : k \in 1..Len(seq)}

SaveDue_Late(counter, K) == counter > K

\* the periodic save is due
SaveDue(counter, K) == counter >= K

\* what df.to_excel writes: the enrichment columns of every row of the map
OutputCells(enr) == [i \in {IntOf(k) : k \in DOMAIN enr} |-> enr[StrOf(i)]]

(***************************************************************************)
(* enrich_leads.py: main().                                                *)
(***************************************************************************)
Stopped == {"idle", "done", "crashed", "aborted", "load_failed"}
PoolOpen == {"collect", "add", "dump", "aborting"}
Running == PoolOpen \cup {"final_dump", "output"}

Queued == {i \in DOMAIN futures : futures[i].st = "queued"}
InWorker == {i \in DOMAIN futures : futures[i].st = "running"}
Finished == {i \in DOMAIN futures : futures[i].st = "finished"}

NoFutures == [i \in {} |-> [st |-> "queued", res |-> "none"]]
NoCur == [index |-> -1, result |-> "none"]

\* lines 198-245: load the checkpoint, pick the rows to do, submit them
MainStart ==
    /\ pc \in Stopped
    /\ run < MaxRuns
    /\ run' = run + 1
    /\ nsaves' = 0
    /\ requests' = 0
    /\ cur' = NoCur
    /\ checkpoint_counter' = 0
    /\ UNCHANGED notDriver
    /\ UNCHANGED <<rows, interval, disk, output>>
    /\ IF LoadRaises(disk)
       THEN /\ pc' = "load_failed"
            /\ processed_indices' = {}
            /\ enrichments' = EmptyMap
            /\ to_process' = <<>>
            /\ progress' = ZeroProgress
            /\ futures' = NoFutures
            /\ loaded' = disk
       ELSE LET checkpoint == load_checkpoint(disk)
                todo == ToProcess(checkpoint.processed_indices, rows)
            IN  /\ processed_indices' = checkpoint.processed_indices
                /\ enrichments' = checkpoint.enrichments
                /\ loaded' = disk
                /\ to_process' = todo
                /\ progress' = [ZeroProgress EXCEPT !.total = Len(todo)]
                /\ futures' = [i \in Range(todo) |-> [st |-> "queued", res |-> "none"]]
                /\ pc' = IF todo = <<>> THEN "done" ELSE "collect"

\* a pool thread takes the oldest queued item
WorkerStart(i) ==
    /\ pc \in PoolOpen
    /\ i \in Queued
    /\ \A j \in Queued : i <= j
    /\ Cardinality(InWorker) < MAX_WORKERS
    /\ futures' = [futures EXCEPT ![i].st = "running"]
    /\ UNCHANGED notDriver
    /\ UNCHANGED <<rows, interval, disk, output, pc, processed_indices,
                   enrichments, to_process, checkpoint_counter, progress, cur,
                   run, loaded, nsaves, requests>>

\* enrich_lead runs to its end on item i
WorkerFinish(i) ==
    /\ pc \in PoolOpen
    /\ i \in InWorker
    /\ LET r == enrich_lead([a \in 1..RETRY_ATTEMPTS |-> rows[i + 1].reply],
                            rows[i + 1].client = "ok")
       IN  /\ futures' = [futures EXCEPT ![i] = [st |-> "finished", res |-> r.status]]
           /\ progress' = [progress EXCEPT !.completed = @ + r.completed,
                                           !.success = @ + r.success,
                                           !.errors = @ + r.errors]
           /\ requests' = requests + r.requests
    /\ UNCHANGED notDriver
    /\ UNCHANGED <<rows, interval, disk, output, pc, processed_indices,
                   enrichments, to_process, checkpoint_counter, cur, run,
                   loaded, nsaves>>

\* the index is marked processed and its result is dropped
MainRecord_AddFirst(i) ==
    /\ pc = "collect"
    /\ i \in Finished
    /\ futures' = [futures EXCEPT ![i].st = "collected"]
    /\ IF futures[i].res = "raised"
       THEN /\ pc' = "aborting"
            /\ UNCHANGED <<processed_indices, cur>>
       ELSE /\ processed_indices' = processed_indices \cup {i}
            /\ cur' = [index |-> i, result |-> futures[i].res]
            /\ pc' = "add"
    /\ UNCHANGED notDriver
    /\ UNCHANGED <<rows, interval, disk, output, enrichments, to_process,
                   checkpoint_counter, progress, run, loaded, nsaves, requests>>

\* lines 247-250: as_completed yields a finished future; future.result()
\* re-raises what the handler raised, otherwise the result is recorded
MainRecord(i) ==
    /\ pc = "collect"
    /\ i \in Finished
    /\ futures' = [futures EXCEPT ![i].st = "collected"]
    /\ IF futures[i].res = "raised"
       THEN /\ pc' = "aborting"
            /\ UNCHANGED <<enrichments, cur>>
       ELSE /\ enrichments' = (StrOf(i) :> [enrichment_status |-> futures[i].res])
                                @@ enrichments
            /\ cur' = [index |-> i, result |-> futures[i].res]
            /\ pc' = "add"
    /\ UNCHANGED notDriver
    /\ UNCHANGED <<rows, interval, disk, output, processed_indices, to_process,
                   checkpoint_counter, progress, run, loaded, nsaves, requests>>

\* lines 251-256 and 188: the index joins the processed set, the counter is
\* raised and, when the save is due, the checkpoint file is opened for writing
MainAdd ==
    /\ pc = "add"
    /\ processed_indices' = processed_indices \cup {cur.index}
    /\ checkpoint_counter' = checkpoint_counter + 1
    /\ cur' = NoCur
    /\ IF SaveDue(checkpoint_counter + 1, interval)
       THEN /\ disk' = Truncated
            /\ pc' = "dump"
       ELSE /\ pc' = "collect"
            /\ UNCHANGED disk
    /\ UNCHANGED notDriver
    /\ UNCHANGED <<rows, interval, output, enrichments, to_process, progress,
                   futures, run, loaded, nsaves, requests>>

\* lines 189 and 259: json.dump ends, the counter restarts
MainDump ==
    /\ pc = "dump"
    /\ disk' = JsonFile(processed_indices, enrichments)
    /\ checkpoint_counter' = 0
    /\ nsaves' = nsaves + 1
    /\ pc' = "collect"
    /\ UNCHANGED notDriver
    /\ UNCHANGED <<rows, interval, output, processed_indices, enrichments,
                   to_process, progress, futures, cur, run, loaded, requests>>

\* lines 261-264: every future is collected, the final save opens the file
MainFinalSave ==
    /\ pc = "collect"
    /\ \A i \in DOMAIN futures : futures[i].st = "collected"
    /\ disk' = Truncated
    /\ pc' = "final_dump"
    /\ UNCHANGED notDriver
    /\ UNCHANGED <<rows, interval, output, processed_indices, enrichments,
                   to_process, checkpoint_counter, progress, futures, cur, run,
                   loaded, nsaves, requests>>

MainFinalDump ==
    /\ pc = "final_dump"
    /\ disk' = JsonFile(processed_indices, enrichments)
    /\ nsaves' = nsaves + 1
    /\ pc' = "output"
    /\ UNCHANGED notDriver
    /\ UNCHANGED <<rows, interval, output, processed_indices, enrichments,
                   to_process, checkpoint_counter, progress, futures, cur, run,
                   loaded, requests>>

\* lines 276-296
MainWriteOutput ==
    /\ pc = "output"
    /\ output' = [written |-> TRUE, cells |-> OutputCells(enrichments)]
    /\ pc' = "done"
    /\ UNCHANGED notDriver
    /\ UNCHANGED <<rows, interval, disk, processed_indices, enrichments,
                   to_process, checkpoint_counter, progress, futures, cur, run,
                   loaded, nsaves, requests>>

\* the exception leaves the with block once the pool has run every item
MainAborted ==
    /\ pc = "aborting"
    /\ Queued = {}
    /\ InWorker = {}
    /\ pc' = "aborted"
    /\ UNCHANGED notDriver
    /\ UNCHANGED <<rows, interval, disk, output, processed_indices, enrichments,
                   to_process, checkpoint_counter, progress, futures, cur, run,
                   loaded, nsaves, requests>>

\* the process is interrupted: its memory is lost, the files stay
Crash ==
    /\ pc \in Running
    /\ pc' = "crashed"
    /\ processed_indices' = {}
    /\ enrichments' = EmptyMap
    /\ to_process' = <<>>
    /\ checkpoint_counter' = 0
    /\ progress' = ZeroProgress
    /\ futures' = NoFutures
    /\ cur' = NoCur
    /\ loaded' = NoFile
    /\ nsaves' = 0
    /\ requests' = 0
    /\ UNCHANGED notDriver
    /\ UNCHANGED <<rows, interval, disk, output, run>>

\* a lead with a plain name that the service finds, and the other leads tried
PlainRow == [name |-> "text", client |-> "ok", reply |-> "valid"]
RowKinds ==
    {[name |-> "text", client |-> "ok", reply |-> r] :
        r \in {"valid", "undecodable", "errOther"}}
    \cup {[name |-> "text", client |-> "fails", reply |-> "valid"],
          [name |-> "missing", client |-> "ok", reply |-> "valid"]}

\* the input datasets tried
Datasets ==
    {d \in UNION {[1..n -> RowKinds] : n \in 1..MaxRows} :
        Cardinality({k \in DOMAIN d : d[k] # PlainRow}) <= MaxOdd}

ClientIdle ==
    /\ cfn = "none"
    /\ cpc = "done"
    /\ cattempt = 0
    /\ clog = <<>>
    /\ cstats = [completed |-> 0, success |-> 0, errors |-> 0]
    /\ cout = "none"

Init ==
    /\ ClientIdle
    /\ AuxIdle
    /\ rows \in Datasets
    /\ interval \in 1..MaxInterval
    /\ disk = NoFile
    /\ output = NoOutput
    /\ pc = "idle"
    /\ processed_indices = {}
    /\ enrichments = EmptyMap
    /\ to_process = <<>>
    /\ checkpoint_counter = 0
    /\ progress = ZeroProgress
    /\ futures = NoFutures
    /\ cur = NoCur
    /\ run = 0
    /\ loaded = NoFile
    /\ nsaves = 0
    /\ requests = 0

Next ==
    \/ MainStart
    \/ \E i \in DOMAIN futures : WorkerStart(i)
    \/ \E i \in DOMAIN futures : WorkerFinish(i)
    \/ \E i \in DOMAIN futures : MainRecord(i)
    \/ MainAdd
    \/ MainDump
    \/ MainFinalSave
    \/ MainFinalDump
    \/ MainWriteOutput
    \/ MainAborted
    \/ Crash

Spec == Init /\ [][Next]_vars

(***************************************************************************)
(* search_leads and enrich_contact: one pass of the handler.               *)
(***************************************************************************)
SearchLeadsRetries_Any(attempt, resp) == attempt < 2

\* whether search_leads tries again after a failed attempt: a reply that does
\* not decode is retried, an exception only when its text holds "429"
SearchLeadsRetries(attempt, resp) ==
    CASE resp = "undecodable" -> attempt < 2
      [] resp = "err429"      -> attempt < 2
      [] OTHER                -> FALSE

\* the sleep before the next attempt
SearchLeadsBackoff(resp) ==
    IF resp = "undecodable" THEN REQUEST_DELAY ELSE REQUEST_DELAY * 3

\* attempt is 0-based, as in range(3).  A reply that decodes leaves the loop;
\* when it is not an array of objects the metadata loop after it raises, with
\* no counter touched.
SearchLeadsAttempt(attempt, resp) ==
    CASE resp = "valid" ->
            [ctl |-> "return", status |-> "success", sleep |-> 0,
             dCompleted |-> 1, dSuccess |-> 1, dErrors |-> 0]
      [] resp = "wrongshape" ->
            [ctl |-> "raise", status |-> "raised", sleep |-> 0,
             dCompleted |-> 0, dSuccess |-> 0, dErrors |-> 0]
      [] OTHER ->
            IF SearchLeadsRetries(attempt, resp)
            THEN [ctl |-> "continue", status |-> "none",
                  sleep |-> SearchLeadsBackoff(resp),
                  dCompleted |-> 0, dSuccess |-> 0, dErrors |-> 0]
            ELSE [ctl |-> "return",
                  status |-> IF resp = "undecodable" THEN "parse_error"
                             ELSE "api_error",
                  sleep |-> 0,
                  dCompleted |-> 1, dSuccess |-> 0, dErrors |-> 1]

\* enrich_contact makes one call; whatever goes wrong inside the try block is
\* caught and counted as an error
EnrichContactAttempt(resp) ==
    IF resp = "valid"
    THEN [ctl |-> "return", status |-> "success", sleep |-> 0,
          dCompleted |-> 1, dSuccess |-> 1, dErrors |-> 0]
    ELSE [ctl |-> "return", status |-> "error", sleep |-> 0,
          dCompleted |-> 1, dSuccess |-> 0, dErrors |-> 1]

(***************************************************************************)
(* One work item in one handler, a call at a time.                         *)
(***************************************************************************)
Handlers == {"enrich_lead", "search_leads", "enrich_contact"}

Slept(d, why) == [ev |-> "sleep", dur |-> d, why |-> why, resp |-> "none"]
Requested(resp) == [ev |-> "request", dur |-> 0, why |-> "none", resp |-> resp]

ThrottleDelay_None(fn) == 0

\* the delay slept once per work item, before the first call
ThrottleDelay(fn) ==
    IF fn = "enrich_contact" THEN CONTACT_REQUEST_DELAY ELSE REQUEST_DELAY

Counted(stats, r) ==
    [completed |-> stats.completed + r.dCompleted,
     success |-> stats.success + r.dSuccess,
     errors |-> stats.errors + r.dErrors]

\* the handler's prologue: enrich_lead builds its client and then sleeps,
\* search_leads and enrich_contact sleep and then build their client; a
\* client that cannot be built ends the handler with the exception
ClientEnter(client) ==
    /\ cpc = "start"
    /\ clog' = IF cfn = "enrich_lead" /\ client = "fails"
               THEN clog
               ELSE Append(clog, Slept(ThrottleDelay(cfn), "throttle"))
    /\ IF client = "ok"
       THEN /\ cpc' = "call"
            /\ UNCHANGED cout
       ELSE /\ cpc' = "done"
            /\ cout' = "raised"
    /\ UNCHANGED <<cfn, cattempt, cstats>>
    /\ UNCHANGED notClient

\* one remote call and what the handler does with its outcome
ClientStep(r, resp) ==
    /\ cstats' = Counted(cstats, r)
    /\ IF r.ctl = "continue"
       THEN /\ clog' = clog \o <<Requested(resp), Slept(r.sleep, "backoff")>>
            /\ cattempt' = cattempt + 1
            /\ UNCHANGED <<cpc, cout>>
       ELSE /\ clog' = Append(clog, Requested(resp))
            /\ cpc' = "done"
            /\ cout' = r.status
            /\ UNCHANGED cattempt
    /\ UNCHANGED cfn
    /\ UNCHANGED notClient

EnrichLeadCall(resp) ==
    /\ cfn = "enrich_lead"
    /\ cpc = "call"
    /\ ClientStep(EnrichLeadAttempt(cattempt, resp), resp)

SearchLeadsCall(resp) ==
    /\ cfn = "search_leads"
    /\ cpc = "call"
    /\ ClientStep(SearchLeadsAttempt(cattempt, resp), resp)

EnrichContactCall(resp) ==
    /\ cfn = "enrich_contact"
    /\ cpc = "call"
    /\ ClientStep(EnrichContactAttempt(resp), resp)

DriverIdle ==
    /\ rows = <<>>
    /\ interval = 1
    /\ disk = NoFile
    /\ output = NoOutput
    /\ pc = "off"
    /\ processed_indices = {}
    /\ enrichments = EmptyMap
    /\ to_process = <<>>
    /\ checkpoint_counter = 0
    /\ progress = ZeroProgress
    /\ futures = NoFutures
    /\ cur = NoCur
    /\ run = 0
    /\ loaded = NoFile
    /\ nsaves = 0
    /\ requests = 0

ClientInit ==
    /\ DriverIdle
    /\ AuxIdle
    /\ cfn \in Handlers
    /\ cpc = "start"
    /\ cattempt = 0
    /\ clog = <<>>
    /\ cstats = [completed |-> 0, success |-> 0, errors |-> 0]
    /\ cout = "none"

ClientNext ==
    \/ \E client \in ClientKinds : ClientEnter(client)
    \/ \E resp \in RespKinds : EnrichLeadCall(resp)
    \/ \E resp \in RespKinds : SearchLeadsCall(resp)
    \/ \E resp \in RespKinds : EnrichContactCall(resp)

SpecClient == ClientInit /\ [][ClientNext]_vars

(***************************************************************************)
(* Properties of the enrich_leads driver (checked under Spec).             *)
(***************************************************************************)
\* the rows main() would dispatch with an empty checkpoint
NamedRows == {i \in 0..(Len(rows) - 1) : ~NameMissing(rows[i + 1].name)}

LoadedProcessed == load_checkpoint(loaded).processed_indices

\* the indices collected so far in this run
CollectedNow == processed_indices \ LoadedProcessed

\* C1: with N work items and interval K, a save follows every K-th
\* completion and one more follows the last completion: while the results
\* are collected the counter stays below K and the number of saves is the
\* number of collected items divided by K; when the run finishes N div K + 1
\* saves were made and the durable processed set is the loaded set plus every
\* dispatched index.
C1_SaveCadence ==
    /\ pc = "collect" =>
          /\ checkpoint_counter < interval
          /\ nsaves = Cardinality(CollectedNow) \div interval
          /\ checkpoint_counter = Cardinality(CollectedNow) % interval
    /\ (pc = "done" /\ to_process # <<>>) =>
          /\ nsaves = (Len(to_process) \div interval) + 1
          /\ disk.kind = "json"
          /\ disk.processed_indices = LoadedProcessed \cup Range(to_process)

\* a finished run of 3 items with interval 2: one periodic and one final save
C1_Witness ==
    /\ pc = "done"
    /\ Len(to_process) = 3
    /\ interval = 2
    /\ nsaves = 2

HasResults(file) ==
    \A i \in file.processed_indices : StrOf(i) \in DOMAIN file.enrichments

\* C2: every processed index has an entry in the enrichment map, in memory
\* and in every checkpoint written; between the recording of a result and the
\* index joining the processed set the result is in the map, the index is not
\* yet processed, and the checkpoint on disk does not hold it.
C2_ProcessedHaveResults ==
    /\ \A i \in processed_indices : StrOf(i) \in DOMAIN enrichments
    /\ disk.kind = "json" => HasResults(disk)
    /\ pc = "add" =>
          /\ StrOf(cur.index) \in DOMAIN enrichments
          /\ cur.index \notin processed_indices
          /\ cur.index \notin disk.processed_indices
          /\ StrOf(cur.index) \notin DOMAIN disk.enrichments

\* a result recorded, its index not yet added, with a checkpoint on disk
C2_Witness ==
    /\ pc = "add"
    /\ disk.kind = "json"
    /\ disk.processed_indices # {}

\* C3: a run restarted after an interruption at any point skips exactly the
\* indices of the last durable checkpoint and dispatches every other named
\* row.
C3_ResumeSkipsCheckpointed ==
    run >= 2 =>
        /\ pc # "load_failed"
        /\ pc \in Running \cup {"done", "aborted"} =>
              Range(to_process) = NamedRows \ LoadedProcessed

\* C4: the checkpoint file holds a complete state at every moment a run can
\* be interrupted, so the next run's load returns a complete checkpoint.
C4_CheckpointAlwaysComplete ==
    /\ pc = "crashed" => disk.kind # "partial"
    /\ pc # "load_failed"

\* the loaded checkpoint covers every row that would be dispatched
Covered == NamedRows \subseteq LoadedProcessed

\* C5: a run started against a checkpoint that covers every row that would be
\* dispatched issues no remote request and leaves the checkpoint file as it
\* found it.
C5_IdempotentRerun ==
    (run >= 1 /\ pc \notin {"crashed", "load_failed"} /\ Covered) =>
        /\ pc = "done"
        /\ requests = 0
        /\ futures = NoFutures
        /\ disk = loaded

\* a second run over a checkpoint that holds every named row
C5_Witness ==
    /\ run = 2
    /\ pc = "done"
    /\ loaded.kind = "json"
    /\ NamedRows # {}
    /\ Covered
    /\ requests = 0

\* C7: a handler's exception does not stop the driver: it is recorded as that
\* item's failure, and the run goes on to the final save and the output.
C7_FailureIsolated ==
    /\ pc \notin {"aborting", "aborted"}
    /\ \A i \in DOMAIN futures :
          (futures[i].st = "collected" /\ futures[i].res = "raised") =>
              StrOf(i) \in DOMAIN enrichments

(***************************************************************************)
(* Properties of the handlers (checked under SpecClient).                  *)
(***************************************************************************)
ReqPositions == {k \in 1..Len(clog) : clog[k].ev = "request"}
NumRequests == Cardinality(ReqPositions)
\* the outcome of the a-th call (a sleep precedes every call in the log)
RespAt(a) == clog[2 * a].resp

\* C6: whatever the calls of a work item answer, the handler ends with its
\* completed/queries counter raised exactly once and exactly one of the
\* success and error tallies raised.
C6_OneOutcomePerItem ==
    (cpc = "done" /\ NumRequests >= 1) =>
        /\ cout # "raised"
        /\ cstats.completed = 1
        /\ cstats.success + cstats.errors = 1

\* C8 as stated: every request of enrich_lead and search_leads, first or
\* retry, comes right after a sleep of the throttling delay REQUEST_DELAY
\* (whichever line of the handler makes that sleep).
C8_EveryRequestThrottled ==
    cfn \in {"enrich_lead", "search_leads"} =>
        \A k \in ReqPositions :
            /\ k > 1
            /\ clog[k - 1].ev = "sleep"
            /\ clog[k - 1].dur = REQUEST_DELAY

\* the back-off the code sleeps after the a-th call answered resp
BackoffAfter(fn, a, resp) ==
    IF fn = "enrich_lead"
    THEN IF resp \in {"err429", "errRate"} THEN a * RETRY_DELAY ELSE RETRY_DELAY
    ELSE IF resp = "undecodable" THEN REQUEST_DELAY ELSE 3 * REQUEST_DELAY

\* C8, amended: the first request of a work item comes right after the one
\* throttling sleep of REQUEST_DELAY; every retry comes right after its
\* back-off sleep alone, and no further throttling sleep is made.
C8_ThrottleOncePerItem ==
    cfn \in {"enrich_lead", "search_leads"} =>
        /\ \A k \in 2..Len(clog) : clog[k].why # "throttle"
        /\ \A k \in ReqPositions :
              /\ k > 1
              /\ k = 2 => clog[1] = Slept(REQUEST_DELAY, "throttle")
              /\ k > 2 =>
                    /\ clog[k - 2].ev = "request"
                    /\ clog[k - 1] =
                         Slept(BackoffAfter(cfn, (k - 2) \div 2, clog[k - 2].resp),
                               "backoff")

\* enrich_lead retried after a rate-limit error
C8_Witness ==
    /\ cfn = "enrich_lead"
    /\ NumRequests = 3
    /\ RespAt(2) = "err429"

CallFailures == {"err429", "errRate", "errOther"}
AllCallsFail ==
    /\ NumRequests >= 1
    /\ \A a \in 1..NumRequests : RespAt(a) \in CallFailures

AttemptCap(fn) ==
    IF fn = "enrich_lead" THEN RETRY_ATTEMPTS
    ELSE IF fn = "search_leads" THEN SEARCH_ATTEMPTS ELSE 1

AllUnparsed ==
    /\ NumRequests >= 1
    /\ \A a \in 1..NumRequests : RespAt(a) = "undecodable"

\* C10: no work item gets more requests than the cap; when no reply decodes,
\* enrich_lead makes RETRY_ATTEMPTS requests (search_leads 3) with one fixed
\* sleep between consecutive attempts (RETRY_DELAY, in search_leads
\* REQUEST_DELAY) and the last attempt returns a parse failure.
C10_ParseRetries ==
    /\ cfn \in Handlers => NumRequests <= AttemptCap(cfn)
    /\ (cpc = "done" /\ cfn \in {"enrich_lead", "search_leads"} /\ AllUnparsed) =>
          /\ NumRequests = AttemptCap(cfn)
          /\ cout = "parse_error"
          /\ \A a \in 1..(NumRequests - 1) :
                clog[2 * a + 1] =
                    Slept(IF cfn = "enrich_lead" THEN RETRY_DELAY ELSE REQUEST_DELAY,
                          "backoff")

\* enrich_lead returned a parse failure from its last attempt
C10_Witness ==
    /\ cfn = "enrich_lead"
    /\ cpc = "done"
    /\ AllUnparsed
    /\ NumRequests = RETRY_ATTEMPTS
    /\ cout = "parse_error"

(***************************************************************************)
(* Replies that do not have the expected shape (checked under SpecClient). *)
(***************************************************************************)
Unshaped == {"undecodable", "wrongshape"}

AllUnshaped ==
    /\ NumRequests >= 1
    /\ \A a \in 1..NumRequests : RespAt(a) \in Unshaped

\* C11: when every reply to a work item of enrich_lead or search_leads is
\* undecodable text or valid JSON of the wrong shape, the handler returns a
\* parse failure: it does not return an API failure and it does not raise.
C11_UnshapedIsParseFailure ==
    (cpc = "done" /\ cfn \in {"enrich_lead", "search_leads"} /\ AllUnshaped) =>
        cout = "parse_error"

(***************************************************************************)
(* Text.  A str is the sequence of its characters; None is a value of its  *)
(* own.                                                                    *)
(***************************************************************************)
PyNone == <<"None">>

UpperCase == <<"A", "B", "C", "D", "E", "F", "G", "H", "I", "J", "K", "L", "M",
               "N", "O", "P", "Q", "R", "S", "T", "U", "V", "W", "X", "Y", "Z">>
LowerCase == <<"a", "b", "c", "d", "e", "f", "g", "h", "i", "j", "k", "l", "m",
               "n", "o", "p", "q", "r", "s", "t", "u", "v", "w", "x", "y", "z">>
Whitespace == {" ", "\t", "\n"}

LowerChar(c) ==
    IF \E i \in DOMAIN UpperCase : UpperCase[i] = c
    THEN LowerCase[CHOOSE i \in DOMAIN UpperCase : UpperCase[i] = c]
    ELSE c

\* s.lower()
Lower(s) == [i \in 1..Len(s) |-> LowerChar(s[i])]

RECURSIVE LStrip(_)
LStrip(s) ==
    IF s = <<>> \/ s[1] \notin Whitespace THEN s ELSE LStrip(Tail(s))

RECURSIVE RStrip(_)
RStrip(s) ==
    IF s = <<>> \/ s[Len(s)] \notin Whitespace
    THEN s
    ELSE RStrip(SubSeq(s, 1, Len(s) - 1))

\* s.strip()
Strip(s) == RStrip(LStrip(s))

\* sub in s
Contains(sub, s) ==
    \E i \in 0..(Len(s) - Len(sub)) : SubSeq(s, i + 1, i + Len(sub)) = sub

\* str(v or ""), for v a str or None
StrOrEmpty(v) == IF v = PyNone THEN <<>> ELSE v

(***************************************************************************)
(* generate_leads.py: deduplicate_leads.                                   *)
(***************************************************************************)
\* largest number of leads handed to deduplicate_leads
MaxLeads == 3

admin == <<"a", "d", "m", "i", "n">>
reception == <<"r", "e", "c", "e", "p", "t", "i", "o", "n">>
nan == <<"n", "a", "n">>

\* the normalised name and company of a lead
NormName(lead) == Strip(Lower(StrOrEmpty(lead.name)))
NormCompany(lead) == Strip(Lower(StrOrEmpty(lead.company)))

IdentityKey_Raw(lead) == <<StrOrEmpty(lead.name), StrOrEmpty(lead.company)>>

\* key = (name, company)
IdentityKey(lead) == <<NormName(lead), NormCompany(lead)>>

\* the leads the loop passes over
Skipped(lead) ==
    \/ NormName(lead) = <<>>
    \/ NormName(lead) = nan
    \/ Contains(admin, NormName(lead))
    \/ Contains(reception, NormName(lead))

\* the loop of deduplicate_leads from the k-th lead on
RECURSIVE DedupFrom(_, _, _, _)
DedupFrom(leads, k, seen, unique) ==
    IF k > Len(leads) THEN unique
    ELSE IF Skipped(leads[k]) THEN DedupFrom(leads, k + 1, seen, unique)
    ELSE IF IdentityKey(leads[k]) \notin seen
         THEN DedupFrom(leads, k + 1, seen \cup {IdentityKey(leads[k])},
                        Append(unique, leads[k]))
         ELSE DedupFrom(leads, k + 1, seen, unique)

deduplicate_leads(leads) == DedupFrom(leads, 1, {}, <<>>)

\* the names and companies tried: absent, blank, one name in three spellings,
\* a second name, and the names the loop passes over
LeadNames ==
    {PyNone, <<" ">>, <<"A", "l">>, <<"a", "L", " ">>, <<"B", "o">>,
     <<"N", "a", "N">>, <<"A", "d", "m", "i", "n", " ", "1">>,
     <<"R", "e", "c", "e", "p", "t", "i", "o", "n">>}
LeadCompanies == {PyNone, <<"C", "o">>, <<" ", "c", "o">>}

\* lists of at most MaxLeads leads; row stands for the other fields of a
\* lead, which differ from lead to lead
LeadLists ==
    UNION {[1..n -> [name : LeadNames, company : LeadCompanies, row : {0}]]
           : n \in 0..MaxLeads}

Numbered(leads) ==
    [i \in 1..Len(leads) |-> [leads[i] EXCEPT !.row = i]]

DedupInit ==
    /\ DriverIdle
    /\ ClientIdle
    /\ ParseIdle
    /\ CheckpointIdle
    /\ PoolIdle
    /\ MergeIdle
    /\ ContactsIdle
    /\ all_leads \in {Numbered(l) : l \in LeadLists}
    /\ unique_leads = <<>>
    /\ dpc = "start"

\* unique_leads = deduplicate_leads(all_leads)
Deduplicate ==
    /\ dpc = "start"
    /\ unique_leads' = deduplicate_leads(all_leads)
    /\ dpc' = "done"
    /\ UNCHANGED all_leads
    /\ UNCHANGED notDedup

DedupNext == Deduplicate

SpecDedup == DedupInit /\ [][DedupNext]_vars

\* the identity of a lead: its name and its company, each lowercased and
\* trimmed
SameLeadKey(lead) ==
    <<Strip(Lower(StrOrEmpty(lead.name))), Strip(Lower(StrOrEmpty(lead.company)))>>

\* C12: deduplicate_leads returns a subsequence of its input in which no two
\* leads share the key (lowercased trimmed name, lowercased trimmed
\* company), every kept lead is the first of the input with its key, and no
\* kept lead has an empty name or a name containing "admin" or "reception".
C12_DedupKeepsFirstOfEachKey ==
    dpc = "done" =>
        /\ \A j \in 1..Len(unique_leads) :
              /\ unique_leads[j].row \in 1..Len(all_leads)
              /\ unique_leads[j] = all_leads[unique_leads[j].row]
        /\ \A j, k \in 1..Len(unique_leads) :
              j < k =>
                 /\ unique_leads[j].row < unique_leads[k].row
                 /\ SameLeadKey(unique_leads[j]) # SameLeadKey(unique_leads[k])
        /\ \A j \in 1..Len(unique_leads) :
              /\ \A i \in 1..(unique_leads[j].row - 1) :
                    SameLeadKey(all_leads[i]) # SameLeadKey(unique_leads[j])
              /\ unique_leads[j].name \notin {PyNone, <<>>}
              /\ ~Contains(admin, Lower(unique_leads[j].name))
              /\ ~Contains(reception, Lower(unique_leads[j].name))

\* three spellings of one name and company: the first is kept, the other two
\* are dropped
C12_Witness ==
    /\ dpc = "done"
    /\ Len(all_leads) = 3
    /\ all_leads[1].name # all_leads[2].name
    /\ all_leads[1].company # all_leads[3].company
    /\ SameLeadKey(all_leads[1]) = SameLeadKey(all_leads[2])
    /\ SameLeadKey(all_leads[1]) = SameLeadKey(all_leads[3])
    /\ unique_leads = <<all_leads[1]>>

(***************************************************************************)
(* enrich_contacts.py: the merge of one enrichment into its row.           *)
(***************************************************************************)
\* ['null', 'None', '', 'N/A'], what counts as no phone in a reply
NoPhoneTexts == {<<"n", "u", "l", "l">>, <<"N", "o", "n", "e">>, <<>>, <<"N", "/", "A">>}
\* ['', 'null', 'none', 'nan', 'n/a'], what counts as an empty email or
\* linkedin cell
EmptyCellTexts == {<<>>, <<"n", "u", "l", "l">>, <<"n", "o", "n", "e">>, <<"n", "a", "n">>, <<"n", "/", "a">>}
at == <<"@">>
linkedin == <<"l", "i", "n", "k", "e", "d", "i", "n">>

\* the truth value of data.get(field), for a str or None
Truthy(v) == v \notin {PyNone, <<>>}

\* {"error": str(e)}
ErrorData == [error |-> <<"e">>]

\* data.get('phone') and str(data['phone']).strip() not in [...]
PhoneFound(data) == Truthy(data.phone) /\ Strip(data.phone) \notin NoPhoneTexts

\* data.get('email') and '@' in str(data.get('email', ''))
EmailFound(data) == Truthy(data.email) /\ Contains(at, data.email)

\* data.get('linkedin') and 'linkedin' in str(data.get('linkedin', '')).lower()
LinkedinFound(data) ==
    Truthy(data.linkedin) /\ Contains(linkedin, Lower(data.linkedin))

EmailVacant_Always(cell) == TRUE

\* current_email in ['', 'null', 'none', 'nan', 'n/a']
EmailVacant(cell) == Strip(Lower(cell)) \in EmptyCellTexts

\* current_linkedin in [...] or 'linkedin' not in current_linkedin
LinkedinVacant(cell) ==
    \/ Strip(Lower(cell)) \in EmptyCellTexts
    \/ ~Contains(linkedin, Strip(Lower(cell)))

\* one pass of the loop over results.items()
MergeRow(cells, data) ==
    IF "error" \in DOMAIN data THEN cells
    ELSE [phone |-> IF PhoneFound(data) THEN data.phone ELSE cells.phone,
          email |-> IF EmailFound(data) /\ EmailVacant(cells.email)
                    THEN data.email ELSE cells.email,
          linkedin |-> IF LinkedinFound(data) /\ LinkedinVacant(cells.linkedin)
                       THEN data.linkedin ELSE cells.linkedin,
          contact_source |-> IF Truthy(data.source) THEN data.source
                             ELSE cells.contact_source]

\* the cells of a row that misses its phone
RowCells ==
    [phone : {<<>>, <<"N", "/", "A">>},
     email : {<<>>, <<" ", "N", "/", "A", " ">>, <<"a", "@", "b">>, <<"a", "b">>},
     linkedin : {<<>>, <<"N", "o", "n", "e">>, <<"l", "i", "n", "k", "e", "d", "i", "n", ".", "c", "o", "m", "/", "a">>, <<"L", "i", "n", "k", "e", "d", "I", "n", ".", "c", "o", "m", "/", "A", " ">>,
                 <<"f", "b", ".", "c", "o", "m", "/", "a">>},
     contact_source : {<<>>}]

\* what a reply can hold for a row
ReplyData ==
    [phone : {PyNone, <<>>, <<" ", "N", "/", "A">>, <<"0", "4", "1", "1">>},
     email : {PyNone, <<>>, <<"c", "@", "d">>, <<"c", "d">>},
     linkedin : {PyNone, <<"L", "i", "n", "k", "e", "d", "I", "n", ".", "c", "o", "m", "/", "z">>, <<"f", "b", ".", "c", "o", "m", "/", "z">>},
     source : {PyNone, <<"w", "e", "b">>}]
    \cup {ErrorData}

MergeInit ==
    /\ DriverIdle
    /\ ClientIdle
    /\ ParseIdle
    /\ CheckpointIdle
    /\ PoolIdle
    /\ DedupIdle
    /\ ContactsIdle
    /\ df_before \in RowCells
    /\ result \in ReplyData
    /\ df_after = df_before
    /\ mpc = "start"

\* the body of the loop that applies results to the dataframe
Merge ==
    /\ mpc = "start"
    /\ df_after' = MergeRow(df_before, result)
    /\ mpc' = "done"
    /\ UNCHANGED <<df_before, result>>
    /\ UNCHANGED notMerge

MergeNext == Merge

SpecMerge == MergeInit /\ [][MergeNext]_vars

\* an empty cell or one of the texts that stand for no value
IsPlaceholder(cell) == Strip(Lower(cell)) \in EmptyCellTexts
HasAt(v) == v # PyNone /\ Contains(at, v)
NamesLinkedin(v) == v # PyNone /\ Contains(linkedin, Lower(v))

\* C13 as stated: the email and the linkedin cell change only when the
\* existing cell is empty or a placeholder and the candidate passes its shape
\* check; an existing value that is neither is never replaced.
C13_NeverClobbers ==
    mpc = "done" =>
        /\ df_after.email # df_before.email =>
              IsPlaceholder(df_before.email) /\ HasAt(result.email)
        /\ df_after.linkedin # df_before.linkedin =>
              IsPlaceholder(df_before.linkedin) /\ NamesLinkedin(result.linkedin)

\* C13, amended: the email cell changes only when it is empty or a
\* placeholder and the candidate holds "@"; the linkedin cell changes only
\* when the candidate holds "linkedin" and the cell is empty, a placeholder
\* or does not itself hold "linkedin"; an email that is not a placeholder and
\* a linkedin value that holds "linkedin" are never replaced.
C13_MergeKeepsExisting ==
    mpc = "done" =>
        /\ df_after.email # df_before.email =>
              /\ IsPlaceholder(df_before.email)
              /\ HasAt(result.email)
              /\ df_after.email = result.email
        /\ df_after.linkedin # df_before.linkedin =>
              /\ IsPlaceholder(df_before.linkedin) \/ ~NamesLinkedin(df_before.linkedin)
              /\ NamesLinkedin(result.linkedin)
              /\ df_after.linkedin = result.linkedin

\* a placeholder email was filled in and a linkedin cell that did not hold
\* "linkedin" was replaced
C13_Witness ==
    /\ mpc = "done"
    /\ df_before.email = <<" ", "N", "/", "A", " ">>
    /\ df_after.email = <<"c", "@", "d">>
    /\ df_before.linkedin = <<"f", "b", ".", "c", "o", "m", "/", "a">>
    /\ df_after.linkedin = <<"L", "i", "n", "k", "e", "d", "I", "n", ".", "c", "o", "m", "/", "z">>

(***************************************************************************)
(* enrich_contacts.py: main() and its pool of enrich_contact workers.      *)
(***************************************************************************)
\* MAX_WORKERS of enrich_contacts.py
CONTACT_MAX_WORKERS == 5

\* ['', 'null', 'none', 'nan', 'n/a', 'if found or null']
MissingPhoneTexts ==
    {<<>>, <<"n", "u", "l", "l">>, <<"n", "o", "n", "e">>, <<"n", "a", "n">>, <<"n", "/", "a">>, <<"i", "f", " ", "f", "o", "u", "n", "d", " ", "o", "r", " ", "n", "u", "l", "l">>}

is_missing_phone_Exact(x) == x = <<>>

is_missing_phone(x) == Strip(Lower(x)) \in MissingPhoneTexts

NoCells == [phone |-> <<>>, email |-> <<>>, linkedin |-> <<>>,
            contact_source |-> <<>>]
WithPhone(p) == [NoCells EXCEPT !.phone = p]
NoData == [phone |-> PyNone, email |-> PyNone, linkedin |-> PyNone,
           source |-> PyNone]

\* a row of the input and what the service answers about it: a row that has
\* its phone; rows that miss it, for which the reply holds a phone, holds a
\* phone and an email, holds null, holds a text that stands for no phone,
\* does not decode, or for which the call fails
ContactKinds ==
    {[cells |-> WithPhone(<<"0", "4", "0", "0">>), resp |-> "valid", data |-> NoData],
     [cells |-> WithPhone(<<>>), resp |-> "valid",
      data |-> [NoData EXCEPT !.phone = <<"0", "4", "1", "1">>]],
     [cells |-> WithPhone(<<" ", "N", "/", "A">>), resp |-> "valid",
      data |-> [NoData EXCEPT !.phone = <<"0", "4", "2", "2">>, !.email = <<"c", "@", "d">>]],
     [cells |-> WithPhone(<<>>), resp |-> "valid", data |-> NoData],
     [cells |-> WithPhone(<<>>), resp |-> "valid",
      data |-> [NoData EXCEPT !.phone = <<"N", "/", "A", " ">>]],
     [cells |-> WithPhone(<<>>), resp |-> "undecodable", data |-> NoData],
     [cells |-> WithPhone(<<>>), resp |-> "errOther", data |-> NoData]}

ContactSets == UNION {[0..(n - 1) -> ContactKinds] : n \in 1..MaxRows}

ZeroStats == [completed |-> 0, found_phone |-> 0, found_email |-> 0,
              errors |-> 0, total |-> 0]

\* data.get('email') and str(...).strip() not in [...] and '@' in str(...)
FoundEmail(d) ==
    /\ Truthy(d.email)
    /\ Strip(d.email) \notin NoPhoneTexts
    /\ Contains(at, d.email)

\* the handler's result for a row: the decoded reply, or the error record
\* when the call or the decoding raised
ContactData(c) == IF c.resp = "valid" THEN c.data ELSE ErrorData

ContactsInit ==
    /\ DriverIdle
    /\ ClientIdle
    /\ ParseIdle
    /\ CheckpointIdle
    /\ PoolIdle
    /\ DedupIdle
    /\ MergeIdle
    /\ contacts \in ContactSets
    /\ cdf = [i \in DOMAIN contacts |-> contacts[i].cells]
    /\ cdf_out = <<>>
    /\ con_stats = ZeroStats
    /\ con_results = EmptyMap
    /\ cfutures = EmptyMap
    /\ epc = "idle"

\* main() up to the submission of the tasks
ContactsStart ==
    /\ epc = "idle"
    /\ LET missing_indices == {i \in DOMAIN cdf : is_missing_phone(cdf[i].phone)}
       IN /\ con_stats' = [con_stats EXCEPT !.total = Cardinality(missing_indices)]
          /\ cfutures' = [i \in missing_indices |-> "queued"]
    /\ epc' = "pool"
    /\ UNCHANGED <<contacts, cdf, cdf_out, con_results>>
    /\ UNCHANGED notContacts

\* a free worker takes the oldest queued task
ContactStart(i) ==
    /\ epc = "pool"
    /\ cfutures[i] = "queued"
    /\ \A j \in DOMAIN cfutures : j < i => cfutures[j] # "queued"
    /\ Cardinality({j \in DOMAIN cfutures : cfutures[j] = "running"})
          < CONTACT_MAX_WORKERS
    /\ cfutures' = [cfutures EXCEPT ![i] = "running"]
    /\ UNCHANGED <<contacts, cdf, cdf_out, con_stats, con_results, epc>>
    /\ UNCHANGED notContacts

\* enrich_contact's call, and its one block under the lock
ContactFinish(i) ==
    /\ epc = "pool"
    /\ cfutures[i] = "running"
    /\ LET d == ContactData(contacts[i])
           r == EnrichContactAttempt(contacts[i].resp)
       IN /\ con_stats' =
               [con_stats EXCEPT
                  !.completed = @ + r.dCompleted,
                  !.errors = @ + r.dErrors,
                  !.found_phone =
                      IF r.status = "success" /\ PhoneFound(d) THEN @ + 1 ELSE @,
                  !.found_email =
                      IF r.status = "success" /\ FoundEmail(d) THEN @ + 1 ELSE @]
          /\ con_results' = [k \in DOMAIN con_results \cup {i} |->
                            IF k = i THEN d ELSE con_results[k]]
    /\ cfutures' = [cfutures EXCEPT ![i] = "done"]
    /\ UNCHANGED <<contacts, cdf, cdf_out, epc>>
    /\ UNCHANGED notContacts

\* the pool has drained: the results are applied to the dataframe, which is saved
ContactsMerge ==
    /\ epc = "pool"
    /\ \A i \in DOMAIN cfutures : cfutures[i] = "done"
    /\ cdf' = [i \in DOMAIN cdf |->
                IF i \in DOMAIN con_results THEN MergeRow(cdf[i], con_results[i])
                ELSE cdf[i]]
    /\ cdf_out' = cdf'
    /\ epc' = "done"
    /\ UNCHANGED <<contacts, con_stats, con_results, cfutures>>
    /\ UNCHANGED notContacts

ContactsNext ==
    \/ ContactsStart
    \/ \E i \in DOMAIN cfutures : ContactStart(i)
    \/ \E i \in DOMAIN cfutures : ContactFinish(i)
    \/ ContactsMerge

SpecContacts == ContactsInit /\ [][ContactsNext]_vars

\* the rows that miss their phone, and among them those whose reply could
\* not be used and those whose reply holds a phone
MissingRows ==
    {i \in DOMAIN contacts :
        Strip(Lower(contacts[i].cells.phone)) \in MissingPhoneTexts}
UnusableRows == {i \in MissingRows : contacts[i].resp # "valid"}
PhoneRows ==
    {i \in MissingRows \ UnusableRows :
        /\ contacts[i].data.phone # PyNone
        /\ Strip(contacts[i].data.phone) \notin {<<>>, <<"n", "u", "l", "l">>, <<"N", "o", "n", "e">>, <<"N", "/", "A">>}}
Drained == epc \in {"pool", "done"} /\ \A i \in DOMAIN cfutures : cfutures[i] = "done"

MaxTasks == 3

Drivers == {"enrich_leads", "generate_leads", "enrich_contacts"}

\* len(leads) of a reply that decodes
FoundCounts == {0, 2}

ZeroPoolStats == [total |-> 0, completed |-> 0, success |-> 0, errors |-> 0,
                  leads |-> 0]

NoResult == [ctl |-> "none", status |-> "none", sleep |-> 0,
             dCompleted |-> 0, dSuccess |-> 0, dErrors |-> 0]

QueuedItem == [st |-> "queued", attempt |-> 0, res |-> NoResult, found |-> 0,
               seen |-> ZeroPoolStats]

\* one pass of the handler's retry loop
HandlerAttempt(drv, attempt, resp) ==
    CASE drv = "enrich_leads" -> EnrichLeadAttempt(attempt, resp)
      [] drv = "generate_leads" -> SearchLeadsAttempt(attempt, resp)
      [] OTHER -> EnrichContactAttempt(resp)

PoolItems == DOMAIN pw
PoolBusy == {i \in PoolItems : pw[i].st \in {"call", "wait", "write"}}
PoolAllDone == \A i \in PoolItems : pw[i].st = "done"
\* from the submission of the futures to the end of the with block
PoolExists == pmain \in {"collect", "due", "save"}

PoolInit ==
    /\ DriverIdle
    /\ ClientIdle
    /\ ParseIdle
    /\ CheckpointIdle
    /\ DedupIdle
    /\ MergeIdle
    /\ ContactsIdle
    /\ pdrv \in Drivers
    /\ psize \in 1..MaxPool
    /\ pinterval \in (IF pdrv = "enrich_leads" THEN 1..MaxInterval ELSE {1})
    /\ pw \in {[i \in 1..n |-> QueuedItem] : n \in 0..MaxTasks}
    /\ plock = 0
    /\ pstats = ZeroPoolStats
    /\ pleads = 0
    /\ presults = {}
    /\ pmain = "init"
    /\ ptaken = {}
    /\ penrich = {}
    /\ pprocessed = {}
    /\ pcounter = 0
    /\ pcklock = FALSE
    /\ pfile = {}

\* main() up to the submission of the futures: enrich_leads returns when
\* there is nothing to process and else resets progress; enrich_contacts sets
\* stats["total"]; neither takes a lock
PoolSubmit ==
    /\ pmain = "init"
    /\ pmain' = IF pdrv = "enrich_leads" /\ PoolItems = {} THEN "done"
                ELSE "collect"
    /\ pstats' = IF pdrv = "generate_leads" \/ pmain' = "done" THEN pstats
                 ELSE [ZeroPoolStats EXCEPT !.total = Cardinality(PoolItems)]
    /\ UNCHANGED <<pdrv, psize, pinterval, pw, plock, pleads, presults, ptaken,
                   penrich, pprocessed, pcounter, pcklock, pfile>>
    /\ UNCHANGED notPool

\* a free worker takes the oldest queued item
PoolTake(i) ==
    /\ PoolExists
    /\ pw[i].st = "queued"
    /\ \A j \in PoolItems : j < i => pw[j].st # "queued"
    /\ Cardinality(PoolBusy) < psize
    /\ pw' = [pw EXCEPT ![i].st = "call"]
    /\ UNCHANGED <<pdrv, psize, pinterval, plock, pstats, pleads, presults,
                   pmain, ptaken, penrich, pprocessed, pcounter, pcklock, pfile>>
    /\ UNCHANGED notPool

\* one remote call of the handler of item i
PoolCall(i, resp, n) ==
    /\ PoolExists
    /\ pw[i].st = "call"
    /\ LET r == HandlerAttempt(pdrv, pw[i].attempt, resp)
       IN pw' = [pw EXCEPT
                   ![i] = CASE r.ctl = "continue" -> [@ EXCEPT !.attempt = @ + 1]
                            [] r.ctl = "raise" ->
                                  [QueuedItem EXCEPT !.st = "done", !.res = r]
                            [] OTHER ->
                                  [QueuedItem EXCEPT !.st = "wait", !.res = r,
                                                     !.found = n]]
    /\ UNCHANGED <<pdrv, psize, pinterval, plock, pstats, pleads, presults,
                   pmain, ptaken, penrich, pprocessed, pcounter, pcklock, pfile>>
    /\ UNCHANGED notPool

PoolLock_NoLock(i) ==
    /\ PoolExists
    /\ pw[i].st = "wait"
    /\ pw' = [pw EXCEPT ![i].st = "write", ![i].seen = pstats]
    /\ UNCHANGED <<pdrv, psize, pinterval, plock, pstats, pleads, presults,
                   pmain, ptaken, penrich, pprocessed, pcounter, pcklock, pfile>>
    /\ UNCHANGED notPool

\* with progress_lock / with lock: the worker of item i enters and reads the
\* counters
PoolLock(i) ==
    /\ PoolExists
    /\ pw[i].st = "wait"
    /\ plock = 0
    /\ plock' = i
    /\ pw' = [pw EXCEPT ![i].st = "write", ![i].seen = pstats]
    /\ UNCHANGED <<pdrv, psize, pinterval, pstats, pleads, presults,
                   pmain, ptaken, penrich, pprocessed, pcounter, pcklock, pfile>>
    /\ UNCHANGED notPool

\* the worker writes the counters it read, raised by its outcome, adds to
\* all_leads or results, leaves the with block and returns; its locals are
\* gone
PoolUpdate(i) ==
    /\ PoolExists
    /\ pw[i].st = "write"
    /\ LET r == pw[i].res
           s == pw[i].seen
       IN pstats' =
            [s EXCEPT
               !.completed = @ + r.dCompleted,
               !.success = IF pdrv = "enrich_leads" THEN @ + r.dSuccess ELSE @,
               !.errors = @ + r.dErrors,
               !.leads = @ + pw[i].found]
    /\ pleads' = pleads + pw[i].found
    /\ presults' = IF pdrv = "enrich_contacts" THEN presults \cup {i}
                   ELSE presults
    /\ plock' = 0
    /\ pw' = [pw EXCEPT ![i] = [QueuedItem EXCEPT !.st = "done", !.res = pw[i].res]]
    /\ UNCHANGED <<pdrv, psize, pinterval, pmain, ptaken, penrich, pprocessed,
                   pcounter, pcklock, pfile>>
    /\ UNCHANGED notPool

\* one pass of the loop over as_completed(futures): enrich_leads records the
\* result and the index, holding no lock; generate_leads prints the exception
\* of a handler that raised; enrich_contacts does nothing
PoolCollect(i) ==
    /\ pmain = "collect"
    /\ pw[i].st = "done"
    /\ i \notin ptaken
    /\ ptaken' = ptaken \cup {i}
    /\ IF pdrv = "enrich_leads"
       THEN /\ penrich' = penrich \cup {i}
            /\ pprocessed' = pprocessed \cup {i}
            /\ pcounter' = pcounter + 1
            /\ pmain' = IF SaveDue(pcounter + 1, pinterval) THEN "due"
                        ELSE "collect"
       ELSE UNCHANGED <<penrich, pprocessed, pcounter, pmain>>
    /\ UNCHANGED <<pdrv, psize, pinterval, pw, plock, pstats, pleads, presults,
                   pcklock, pfile>>
    /\ UNCHANGED notPool

\* the loop is over and the with block is left; enrich_leads goes on to its
\* final save
PoolLeave ==
    /\ pmain = "collect"
    /\ ptaken = PoolItems
    /\ pmain' = IF pdrv = "enrich_leads" THEN "final_due" ELSE "done"
    /\ UNCHANGED <<pdrv, psize, pinterval, pw, plock, pstats, pleads, presults,
                   ptaken, penrich, pprocessed, pcounter, pcklock, pfile>>
    /\ UNCHANGED notPool

\* save_checkpoint: with checkpoint_lock
PoolSaveLock ==
    /\ pmain \in {"due", "final_due"}
    /\ ~pcklock
    /\ pcklock' = TRUE
    /\ pmain' = IF pmain = "due" THEN "save" ELSE "final_save"
    /\ UNCHANGED <<pdrv, psize, pinterval, pw, plock, pstats, pleads, presults,
                   ptaken, penrich, pprocessed, pcounter, pfile>>
    /\ UNCHANGED notPool

\* save_checkpoint: the file is written and the lock released
PoolSaveWrite ==
    /\ pmain \in {"save", "final_save"}
    /\ pfile' = pprocessed
    /\ pcklock' = FALSE
    /\ pcounter' = IF pmain = "save" THEN 0 ELSE pcounter
    /\ pmain' = IF pmain = "save" THEN "collect" ELSE "done"
    /\ UNCHANGED <<pdrv, psize, pinterval, pw, plock, pstats, pleads, presults,
                   ptaken, penrich, pprocessed>>
    /\ UNCHANGED notPool

\* the steps of the worker that runs item i, and those of the main thread
PoolWorker(i) ==
    \/ PoolTake(i)
    \/ \E resp \in RespKinds :
          \E n \in (IF pdrv = "generate_leads" /\ resp = "valid"
                    THEN FoundCounts ELSE {0}) : PoolCall(i, resp, n)
    \/ PoolLock(i)
    \/ PoolUpdate(i)

PoolMain ==
    \/ PoolSubmit
    \/ \E i \in PoolItems : PoolCollect(i)
    \/ PoolLeave
    \/ PoolSaveLock
    \/ PoolSaveWrite

PoolNext ==
    \/ PoolSubmit
    \/ \E i \in PoolItems : PoolTake(i)
    \/ \E i \in PoolItems, resp \in RespKinds :
          \E n \in (IF pdrv = "generate_leads" /\ resp = "valid"
                    THEN FoundCounts ELSE {0}) : PoolCall(i, resp, n)
    \/ \E i \in PoolItems : PoolLock(i)
    \/ \E i \in PoolItems : PoolUpdate(i)
    \/ \E i \in PoolItems : PoolCollect(i)
    \/ PoolLeave
    \/ PoolSaveLock
    \/ PoolSaveWrite

SpecPool == PoolInit /\ [][PoolNext]_vars

\* every thread that can take a step eventually takes one
FairSpecPool ==
    /\ SpecPool
    /\ \A i \in 1..MaxTasks : WF_vars(i \in PoolItems /\ PoolWorker(i))
    /\ WF_vars(PoolMain)

\* the worker that leaves its locked block in this step
PoolWriter(i) == pw[i].st = "write" /\ pw'[i].st = "done"

\* C15 as stated: once the futures are submitted, whenever the counters,
\* all_leads, results, the enrichments map, the processed set or the
\* checkpoint file change, the thread that writes holds a lock: a worker the
\* progress lock, the main thread the checkpoint lock.
C15_EveryWriteUnderLock ==
    [][/\ (pstats' # pstats \/ pleads' # pleads \/ presults' # presults) =>
              \/ pmain = "init"
              \/ \E i \in PoolItems : PoolWriter(i) /\ plock = i
       /\ (penrich' # penrich \/ pprocessed' # pprocessed \/ pfile' # pfile) =>
              pcklock]_vars

\* C15, amended: every write a worker makes to the counters, to all_leads or
\* to results is made while that worker holds the lock, taken before it read
\* the counters; the checkpoint file is written while the main thread holds
\* checkpoint_lock.  The main thread sets the counters before it submits the
\* futures and, in enrich_leads, writes the enrichments map and the processed
\* set in its collection loop, holding no lock; no worker writes these.
C15_WorkerWritesUnderLock ==
    [][/\ (pstats' # pstats \/ pleads' # pleads \/ presults' # presults) =>
              \/ pmain = "init" /\ pmain' # "init" /\ pw' = pw
              \/ \E i \in PoolItems :
                    /\ PoolWriter(i)
                    /\ plock = i
                    /\ pw[i].seen = pstats
       /\ pfile' # pfile => pcklock
       /\ (penrich' # penrich \/ pprocessed' # pprocessed) =>
              /\ pmain = "collect"
              /\ ptaken' # ptaken
              /\ pw' = pw
              /\ ~pcklock]_vars

\* two workers of enrich_leads have updated the counters and the main thread
\* has recorded both results and saved them
C15_Witness ==
    /\ pdrv = "enrich_leads"
    /\ pstats.completed = 2
    /\ penrich = {1, 2}
    /\ pfile = {1, 2}

\* the finished search tasks
PoolFinished == {i \in PoolItems : pw[i].st = "done"}

\* C20: in enrich_leads completed = success + errors and completed <= total
\* whenever no worker is inside its locked block, and completed = total once
\* every future is done; in generate_leads stats.queries is the number of
\* finished search tasks and stats.leads is len(all_leads).
C20_CountersMatch ==
    (pmain # "init" /\ plock = 0 /\ \A i \in PoolItems : pw[i].st # "write") =>
        /\ pdrv = "enrich_leads" =>
              /\ pstats.completed = pstats.success + pstats.errors
              /\ pstats.completed <= pstats.total
              /\ (PoolAllDone /\ PoolItems # {}) => pstats.completed = pstats.total
        /\ pdrv = "generate_leads" =>
              /\ pstats.completed = Cardinality(PoolFinished)
              /\ pstats.leads = pleads

\* what C20 says without the search tasks whose handler raised
C20_CountersMatchReturned ==
    (pmain # "init" /\ plock = 0 /\ \A i \in PoolItems : pw[i].st # "write") =>
        /\ pdrv = "enrich_leads" =>
              /\ pstats.completed = pstats.success + pstats.errors
              /\ pstats.completed <= pstats.total
              /\ (PoolAllDone /\ PoolItems # {}) => pstats.completed = pstats.total
        /\ pdrv = "generate_leads" =>
              /\ pstats.completed =
                    Cardinality({i \in PoolFinished : pw[i].res.ctl = "return"})
              /\ pstats.leads = pleads

TypedOutcomes == {"success", "parse_error", "api_error", "error"}

\* C18: under fair scheduling, with every remote call returning or failing,
\* every submitted item eventually ends as a success, a parse failure or an
\* API failure, and the main thread eventually is past its collection loop.
C18_EveryItemReachesOutcome ==
    <>(/\ pmain = "done"
       /\ \A i \in PoolItems :
             pw[i].st = "done" /\ pw[i].res.status \in TypedOutcomes)

\* what remains of C18 when a handler that raised counts as ended: every
\* handler eventually returns or raises and the main thread eventually is
\* past its collection loop
C18_PoolTerminates ==
    <>(pmain = "done" /\ \A i \in PoolItems : pw[i].st = "done")

(***************************************************************************)
(* Bounded loss (checked under Spec).                                      *)
(***************************************************************************)
\* the indices the checkpoint file holds, none when there is no file
DurableProcessed == IF disk.kind = "json" THEN disk.processed_indices ELSE {}

\* the indices processed in memory that the checkpoint file does not hold
Unsaved == processed_indices \ DurableProcessed

MaxKeys == 3

PInt(n) == [py |-> "int", n |-> n, s |-> ""]
PStr(s) == [py |-> "str", n |-> 0, s |-> s]
PNone == [py |-> "None", n |-> 0, s |-> ""]

JNumber(n) == [js |-> "number", n |-> n, s |-> ""]
JString(s) == [js |-> "string", n |-> 0, s |-> s]
JNull == [js |-> "null", n |-> 0, s |-> ""]

\* json.dump of a value
EncodeValue(v) ==
    CASE v.py = "int" -> JNumber(v.n)
      [] v.py = "str" -> JString(v.s)
      [] OTHER -> JNull

\* json.dump of a key of a dict: a key that is not a str is written as the
\* string that spells it
EncodeKey(k) ==
    CASE k.py = "int" -> ToString(k.n)
      [] k.py = "str" -> k.s
      [] OTHER -> "null"

DecodeValue_Text(j) ==
    CASE j.js = "number" -> PStr(ToString(j.n))
      [] j.js = "string" -> PStr(j.s)
      [] OTHER -> PNone

\* json.load of a value
DecodeValue(j) ==
    CASE j.js = "number" -> PInt(j.n)
      [] j.js = "string" -> PStr(j.s)
      [] OTHER -> PNone

\* json.load of a key of an object
DecodeKey(name) == PStr(name)

\* an Enrichment Record, a dict with str keys, and its JSON object
EncodeRecord(rec) == [f \in DOMAIN rec |-> EncodeValue(rec[f])]
DecodeRecord(obj) == [f \in DOMAIN obj |-> DecodeValue(obj[f])]

\* a dict is the set of its (key, value) pairs, a JSON object maps names to
\* values
EncodeDict(d) ==
    [name \in {EncodeKey(kv[1]) : kv \in d} |->
        EncodeRecord((CHOOSE kv \in d : EncodeKey(kv[1]) = name)[2])]
DecodeDict(obj) == {<<DecodeKey(name), DecodeRecord(obj[name])>> : name \in DOMAIN obj}

\* list(processed_indices): the elements of the set in some order
ListsOf(S) ==
    {l \in [1..Cardinality(S) -> S] : \A i, j \in DOMAIN l : i # j => l[i] # l[j]}

\* json.dump(checkpoint, f), with checkpoint['processed_indices'] = order
JsonDump(order, enr) ==
    [exists |-> TRUE,
     processed_indices |-> [i \in DOMAIN order |-> EncodeValue(order[i])],
     enrichments |-> EncodeDict(enr)]

AbsentFile == [exists |-> FALSE, processed_indices |-> <<>>,
               enrichments |-> <<>>]

\* load_checkpoint, and what main() makes of its result: the list becomes a
\* set
LoadState(file) ==
    IF file.exists
    THEN [processed_indices |->
             {DecodeValue(file.processed_indices[i]) :
                 i \in DOMAIN file.processed_indices},
          enrichments |-> DecodeDict(file.enrichments)]
    ELSE [processed_indices |-> {}, enrichments |-> {}]

\* the results enrich_lead returns
EnrichmentRecords ==
    {[enrichment_status |-> PStr("success"), contact_phone |-> PStr("0400"),
      confidence |-> PInt(3)],
     [enrichment_status |-> PStr("success"), contact_phone |-> PNone,
      confidence |-> PStr("3")],
     [enrichment_status |-> PStr("parse_error"), contact_phone |-> PNone,
      confidence |-> PNone]}

KeyIndices == 0..(MaxKeys - 1)

\* the states main() can hold: a set of indices and a dict from str(index)
\* to a record
CheckpointStates ==
    [processed_indices : {{PInt(i) : i \in S} : S \in SUBSET KeyIndices},
     enrichments :
        UNION {{{<<PStr(StrOf(i)), f[i]>> : i \in S} :
                   f \in [S -> EnrichmentRecords]} : S \in SUBSET KeyIndices}]

CheckpointInit ==
    /\ DriverIdle
    /\ ClientIdle
    /\ ParseIdle
    /\ DedupIdle
    /\ MergeIdle
    /\ ContactsIdle
    /\ PoolIdle
    /\ kstate \in CheckpointStates
    /\ kfile = AbsentFile
    /\ kloaded = LoadState(AbsentFile)
    /\ kpc = "start"

\* checkpoint['processed_indices'] = list(processed_indices);
\* checkpoint['enrichments'] = enrichments; save_checkpoint(checkpoint)
CheckpointSave(order) ==
    /\ kpc = "start"
    /\ kfile' = JsonDump(order, kstate.enrichments)
    /\ kpc' = "saved"
    /\ UNCHANGED <<kstate, kloaded>>
    /\ UNCHANGED notCheckpoint

\* checkpoint = load_checkpoint(); processed_indices = set(...);
\* enrichments = checkpoint.get('enrichments', {})
CheckpointLoad ==
    /\ kpc \in {"start", "saved"}
    /\ kloaded' = LoadState(kfile)
    /\ kpc' = "loaded"
    /\ UNCHANGED <<kstate, kfile>>
    /\ UNCHANGED notCheckpoint

CheckpointNext ==
    \/ \E order \in ListsOf(kstate.processed_indices) : CheckpointSave(order)
    \/ CheckpointLoad

SpecCheckpoint == CheckpointInit /\ [][CheckpointNext]_vars

\* C16: load_checkpoint after save_checkpoint(S) gives S back, the same
\* processed indices as a set and the same keys and records in the map;
\* load_checkpoint without a checkpoint file gives the empty state.
C16_RoundTrip ==
    kpc = "loaded" =>
        IF kfile.exists
        THEN /\ kloaded.processed_indices = kstate.processed_indices
             /\ kloaded.enrichments = kstate.enrichments
        ELSE /\ kloaded.processed_indices = {}
             /\ kloaded.enrichments = {}

\* a state of two indices, written in descending order, with records that
\* hold a number, a string and a null, came back as it was
C16_Witness ==
    /\ kpc = "loaded"
    /\ kfile.exists
    /\ kfile.processed_indices = <<JNumber(1), JNumber(0)>>
    /\ \E kv \in kstate.enrichments : kv[2].confidence = PInt(3)
    /\ \E kv \in kstate.enrichments : kv[2].confidence = PNone
    /\ kloaded = kstate

(***************************************************************************)
(* The parsing step of the three handlers, on the text of a reply.         *)
(***************************************************************************)
\* the character of which three make a fence
bt == "backtick"

fence == <<bt, bt, bt>>
fence_json == <<bt, bt, bt, "j", "s", "o", "n">>

\* s.find(sub), counted from 1; 0 when sub is not in s
Find(sub, s) ==
    IF Contains(sub, s)
    THEN 1 + CHOOSE i \in 0..(Len(s) - Len(sub)) :
                 /\ SubSeq(s, i + 1, i + Len(sub)) = sub
                 /\ \A j \in 0..(i - 1) : SubSeq(s, j + 1, j + Len(sub)) # sub
    ELSE 0

\* s.rfind(sub), counted from 1; 0 when sub is not in s
RFind(sub, s) ==
    IF Contains(sub, s)
    THEN 1 + CHOOSE i \in 0..(Len(s) - Len(sub)) :
                 /\ SubSeq(s, i + 1, i + Len(sub)) = sub
                 /\ \A j \in (i + 1)..(Len(s) - Len(sub)) :
                       SubSeq(s, j + 1, j + Len(sub)) # sub
    ELSE 0

\* s.split(sep)[0]
SplitHead(sep, s) ==
    IF Contains(sep, s) THEN SubSeq(s, 1, Find(sep, s) - 1) ELSE s

\* s.split(sep)[1], for s that holds sep
SplitSecond(sep, s) ==
    SplitHead(sep, SubSeq(s, Find(sep, s) + Len(sep), Len(s)))

\* the interior of the first fenced block, if the text holds a fence
StripFence(content) ==
    IF Contains(fence_json, content)
    THEN Strip(SplitHead(fence, SplitSecond(fence_json, content)))
    ELSE IF Contains(fence, content)
    THEN Strip(SplitHead(fence, SplitSecond(fence, content)))
    ELSE content

SliceBrackets_Never(open, close, content) == content

\* if not content.startswith(open): the text from the first open to the last
\* close, when there is one after the other
SliceBrackets(open, close, content) ==
    IF content # <<>> /\ content[1] = open THEN content
    ELSE IF Find(<<open>>, content) # 0
            /\ RFind(<<close>>, content) + 1 > Find(<<open>>, content)
    THEN SubSeq(content, Find(<<open>>, content), RFind(<<close>>, content))
    ELSE content

\* the text each handler hands to json.loads
ParseText(fn, raw) ==
    CASE fn = "enrich_lead" -> StripFence(Strip(raw))
      [] fn = "search_leads" -> SliceBrackets("[", "]", StripFence(Strip(raw)))
      [] OTHER -> SliceBrackets("{", "}", StripFence(Strip(raw)))

\* the text around the block, the opening of the block and the JSON texts
\* tried: an object, an array of objects, an object that holds an array, a
\* number, and a string that holds a fence
ProseTexts == {<<>>, <<"H", "e", "r", "e", ":", " ">>, <<"s", "e", "e", " ", "[", "1", "]", " ", "{", "x", "}", " ">>}
FenceOpenings == {<<bt, bt, bt, "j", "s", "o", "n">>, <<bt, bt, bt>>}
JsonTexts ==
    {<<"{", "\"", "a", "\"", ":", "1", "}">>, <<"[", "{", "\"", "a", "\"", ":", "1", "}", "]">>, <<"{", "\"", "a", "\"", ":", "[", "1", "]", "}">>, <<"1", "7">>, <<"{", "\"", "a", "\"", ":", "\"", bt, bt, bt, "\"", "}">>}
Replies ==
    [before : ProseTexts, open : FenceOpenings, gap : {<<" ">>, <<"\n">>},
     json : JsonTexts, after : ProseTexts]

\* the text of a reply; a block that was not opened is not closed
RawText(r) ==
    r.before \o r.open \o r.gap \o r.json \o r.gap
        \o (IF r.open = <<>> THEN <<>> ELSE fence) \o r.after

ParseInit ==
    /\ DriverIdle
    /\ ClientIdle
    /\ DedupIdle
    /\ MergeIdle
    /\ ContactsIdle
    /\ PoolIdle
    /\ CheckpointIdle
    /\ reply \in Replies
    /\ parser \in Handlers
    /\ extracted = <<>>
    /\ xpc = "start"

\* the lines between the reply and json.loads
ParseReply ==
    /\ xpc = "start"
    /\ extracted' = ParseText(parser, RawText(reply))
    /\ xpc' = "done"
    /\ UNCHANGED <<reply, parser>>
    /\ UNCHANGED notParse

ParseNext == ParseReply

SpecParse == ParseInit /\ [][ParseNext]_vars

\* replies without a fence: text, a JSON text, text
PlainJsonTexts == {j \in JsonTexts : ~Contains(fence, j)}
PlainReplies ==
    [before : ProseTexts, open : {<<>>}, gap : {<<>>},
     json : PlainJsonTexts, after : ProseTexts]

UnfencedInit ==
    /\ DriverIdle
    /\ ClientIdle
    /\ DedupIdle
    /\ MergeIdle
    /\ ContactsIdle
    /\ PoolIdle
    /\ CheckpointIdle
    /\ reply \in PlainReplies
    /\ parser \in Handlers
    /\ extracted = <<>>
    /\ xpc = "start"

SpecUnfenced == UnfencedInit /\ [][ParseNext]_vars

\* C17 as stated: for a reply made of text, one fenced block that holds a
\* JSON text, and text, each handler hands json.loads exactly the JSON text
\* in the block.
C17_FenceRecovered ==
    xpc = "done" => extracted = reply.json

OpeningOf(fn) ==
    IF fn = "search_leads" THEN "[" ELSE IF fn = "enrich_contact" THEN "{" ELSE ""

\* C17, amended: for such a reply whose block is opened by a fence or by a
\* fence and the label json, and whose JSON text holds no fence, enrich_lead hands json.loads exactly the JSON
\* text in the block; search_leads does when that text begins with "[" or
\* holds no "[" followed by a "]", and otherwise hands over the part from its
\* first "[" to its last "]"; enrich_contact likewise with "{" and "}".
C17_FenceRecoveredForShape ==
    (xpc = "done" /\ ~Contains(fence, reply.json)) =>
        IF \/ parser = "enrich_lead"
           \/ reply.json[1] = OpeningOf(parser)
           \/ ~\E i, j \in DOMAIN reply.json :
                 /\ i <= j
                 /\ reply.json[i] = OpeningOf(parser)
                 /\ reply.json[j] = (IF parser = "search_leads" THEN "]" ELSE "}")
        THEN extracted = reply.json
        ELSE /\ extracted # reply.json
             /\ Contains(extracted, reply.json)
             /\ extracted[1] = OpeningOf(parser)

\* search_leads got the array out of a labelled block between two texts that
\* hold brackets themselves
C17_Witness ==
    /\ xpc = "done"
    /\ parser = "search_leads"
    /\ reply.before = <<"s", "e", "e", " ", "[", "1", "]", " ", "{", "x", "}", " ">>
    /\ reply.after = <<"s", "e", "e", " ", "[", "1", "]", " ", "{", "x", "}", " ">>
    /\ reply.open = fence_json
    /\ reply.json = <<"[", "{", "\"", "a", "\"", ":", "1", "}", "]">>
    /\ extracted = reply.json

(***************************************************************************)
(* Back-off after a rate-limit failure (checked under SpecClient).         *)
(***************************************************************************)
\* the failures that carry a rate-limit signal: a text with 429, a text with
\* "rate"
RateSignals == {"err429", "errRate"}

\* the a-th request was made, was not the last the cap allows, and failed
\* with a rate-limit signal
RateLimitedAt(a) ==
    /\ a \in 1..NumRequests
    /\ a < AttemptCap(cfn)
    /\ RespAt(a) \in RateSignals

\* C21 as stated: in enrich_lead and search_leads a rate-limited failure of
\* attempt k below the cap is followed by a sleep before attempt k+1; in
\* enrich_lead the sleep is k * RETRY_DELAY, and in both a later rate-limited
\* retry waits strictly longer than an earlier one.
C21_BackoffEscalates ==
    cfn \in {"enrich_lead", "search_leads"} =>
        /\ \A a \in 1..NumRequests :
              RateLimitedAt(a) =>
                  /\ Len(clog) >= 2 * a + 1
                  /\ clog[2 * a + 1].ev = "sleep"
                  /\ cfn = "enrich_lead" => clog[2 * a + 1].dur = a * RETRY_DELAY
        /\ \A a, b \in 1..NumRequests :
              (a < b /\ RateLimitedAt(a) /\ RateLimitedAt(b)
                 /\ Len(clog) >= 2 * b + 1) =>
                  clog[2 * a + 1].dur < clog[2 * b + 1].dur

\* C21, amended: in enrich_lead a rate-limited failure of attempt k below the
\* cap is followed by a sleep of k * RETRY_DELAY and then attempt k+1, so a
\* later rate-limited retry waits strictly longer; in search_leads a failure
\* with 429 below the cap is followed by a sleep of 3 * REQUEST_DELAY
\* whatever the attempt, and a failure whose text only names a rate limit
\* ends the handler with an API failure and no sleep.
C21_BackoffPerClient ==
    /\ cfn = "enrich_lead" =>
          /\ \A a \in 1..NumRequests :
                RateLimitedAt(a) =>
                    /\ Len(clog) >= 2 * a + 1
                    /\ clog[2 * a + 1] = Slept(a * RETRY_DELAY, "backoff")
                    /\ IF Len(clog) = 2 * a + 1 THEN cpc = "call"
                       ELSE clog[2 * a + 2].ev = "request"
          /\ \A a, b \in 1..NumRequests :
                (a < b /\ RateLimitedAt(a) /\ RateLimitedAt(b)) =>
                    clog[2 * a + 1].dur < clog[2 * b + 1].dur
    /\ cfn = "search_leads" =>
          \A a \in 1..NumRequests :
              RateLimitedAt(a) =>
                  IF RespAt(a) = "err429"
                  THEN /\ Len(clog) >= 2 * a + 1
                       /\ clog[2 * a + 1] = Slept(3 * REQUEST_DELAY, "backoff")
                  ELSE /\ Len(clog) = 2 * a
                       /\ cpc = "done"
                       /\ cout = "api_error"

\* enrich_lead waited RETRY_DELAY after a first rate-limited failure and twice
\* that after a second one
C21_Witness ==
    /\ cfn = "enrich_lead"
    /\ NumRequests >= 3
    /\ RespAt(1) = "err429"
    /\ RespAt(2) = "errRate"
    /\ clog[3].dur = RETRY_DELAY
    /\ clog[5].dur = 2 * RETRY_DELAY

(***************************************************************************)
(* Replies without a fence (checked under SpecUnfenced).                   *)
(***************************************************************************)
\* the delimiters of the JSON value a handler asks for: search_leads asks for
\* an array, enrich_lead and enrich_contact for an object
ExpectedOpen(fn) == IF fn = "search_leads" THEN "[" ELSE "{"
ExpectedClose(fn) == IF fn = "search_leads" THEN "]" ELSE "}"

\* the text has an opening delimiter with a closing one at or after it
HasPair(fn, t) ==
    \E i, j \in DOMAIN t :
        /\ i <= j
        /\ t[i] = ExpectedOpen(fn)
        /\ t[j] = ExpectedClose(fn)

FirstOpen(fn, t) ==
    CHOOSE i \in DOMAIN t :
        /\ t[i] = ExpectedOpen(fn)
        /\ \A k \in 1..(i - 1) : t[k] # ExpectedOpen(fn)

LastClose(fn, t) ==
    CHOOSE j \in DOMAIN t :
        /\ t[j] = ExpectedClose(fn)
        /\ \A k \in (j + 1)..Len(t) : t[k] # ExpectedClose(fn)

\* what the claim says is decoded for the text t of a reply
SlicedAsStated(fn, t) ==
    IF (t = <<>> \/ t[1] # ExpectedOpen(fn)) /\ HasPair(fn, t)
    THEN SubSeq(t, FirstOpen(fn, t), LastClose(fn, t))
    ELSE t

\* the reply holds a JSON value of the shape the handler asks for
AskedShape == reply.json[1] = ExpectedOpen(parser)

\* C22 as stated: in every handler, a reply without fences that does not
\* start with the expected opening delimiter is cut from its first opening
\* to its last closing delimiter before it is decoded, and decoded as it is
\* when it has no such pair; so text, a JSON value, text is decoded to that
\* value.
C22_UnfencedSliced ==
    xpc = "done" =>
        /\ extracted = SlicedAsStated(parser, Strip(RawText(reply)))
        /\ AskedShape => extracted = reply.json

\* the text holds neither delimiter of the handler
NoDelimiter(fn, t) ==
    \A i \in DOMAIN t : t[i] \notin {ExpectedOpen(fn), ExpectedClose(fn)}

\* the part of C22 that holds: search_leads and enrich_contact cut the text
\* as stated, and hand over the JSON value when the text around it holds
\* none of their delimiters and text follows the value only if text
\* precedes it
C22_SlicedWhereCoded ==
    (xpc = "done" /\ parser # "enrich_lead") =>
        /\ extracted = SlicedAsStated(parser, Strip(RawText(reply)))
        /\ (/\ AskedShape
            /\ NoDelimiter(parser, reply.before)
            /\ NoDelimiter(parser, reply.after)
            /\ Strip(reply.before) # <<>> \/ Strip(reply.after) = <<>>)
             => extracted = reply.json

\* enrich_lead hands over the whole text, whatever stands around the value
C22_EnrichLeadWholeText ==
    (xpc = "done" /\ parser = "enrich_lead") =>
        extracted = Strip(RawText(reply))

(***************************************************************************)
(* Growth of the checkpoint file of enrich_leads (checked under Spec).     *)
(***************************************************************************)
\* the processed indices a run can read back from the checkpoint file
DurableIndices(file) ==
    IF file.kind = "json" THEN file.processed_indices ELSE {}

\* index i is handed to the pool, or to one of its threads, by this step
DispatchedNow(i) ==
    /\ i \in DOMAIN futures'
    /\ futures'[i].st \in {"queued", "running"}
    /\ ~(i \in DOMAIN futures /\ futures[i].st = futures'[i].st)

\* C23 as stated: whatever saves, interruptions and restarts happen, the
\* checkpoint file never loses a processed index it held, and an index the
\* file holds is never dispatched to a worker again.
C23_CheckpointOnlyGrows ==
    [][/\ DurableIndices(disk) \subseteq DurableIndices(disk')
       /\ \A i \in DurableIndices(disk) : ~DispatchedNow(i)]_vars

\* the part of C23 that holds: a save replaces a complete checkpoint by an
\* empty file and then by a complete checkpoint of the run's processed set,
\* which holds every index of the replaced one; no index of the file is
\* dispatched; a run that finds the file incomplete dispatches nothing
C23_CompleteCheckpointsGrow ==
    [][/\ (disk.kind = "json" /\ disk' # disk) =>
              /\ disk' = Truncated
              /\ pc' \in {"dump", "final_dump"}
              /\ disk.processed_indices \subseteq processed_indices'
       /\ (disk.kind = "partial" /\ disk' # disk) =>
              /\ disk' = JsonFile(processed_indices, enrichments)
              /\ processed_indices' = processed_indices
       /\ (pc \in {"dump", "final_dump"} /\ pc' = pc) =>
              processed_indices' = processed_indices
       /\ \A i \in DurableIndices(disk) : ~DispatchedNow(i)
       /\ (disk.kind = "partial" /\ pc \in Stopped /\ pc' # pc) =>
              /\ pc' = "load_failed"
              /\ futures' = NoFutures]_vars

(***************************************************************************)
(* The output dataset of enrich_leads (checked under Spec).                *)
(***************************************************************************)
\* main() has returned, not raised and not been interrupted
ReturnedNormally == pc = "done"

\* the output file holds the enrichment fields of every record of the file
OutputHolds(file) ==
    /\ output.written
    /\ \A k \in DOMAIN load_checkpoint(file).enrichments :
          /\ IntOf(k) \in DOMAIN output.cells
          /\ output.cells[IntOf(k)] = load_checkpoint(file).enrichments[k]

\* C24 as stated: whenever main() has returned normally the output dataset
\* is written and holds the enrichment fields of every record of the
\* checkpoint file, also in a run started after an interruption between the
\* final save and the output write.
C24_OutputOnReturn ==
    ReturnedNormally => OutputHolds(disk)

\* the part of C24 that holds: a run that dispatched at least one lead and
\* returned has written the output from the checkpoint it saved last
C24_OutputWhenDispatched ==
    (ReturnedNormally /\ to_process # <<>>) =>
        /\ disk.kind = "json"
        /\ OutputHolds(disk)
        /\ output.cells = OutputCells(disk.enrichments)

\* a run that found every named lead in the checkpoint returned although no
\* output file exists
C24_ReturnedWithoutOutput ==
    /\ ReturnedNormally
    /\ run = 2
    /\ disk.kind = "json"
    /\ disk.processed_indices # {}
    /\ to_process = <<>>
    /\ ~output.written

====
